---- MODULE Spec2Model ----
(***************************************************************************)
(* A model of the buttercup behaviour-tree runtime:                        *)
(*   - ReactiveService (src/app/behavior/context/reactive.rs): the         *)
(*     registry of abort handles per behaviour-tree node id;               *)
(*   - SelectionTreeEvaluator (src/app/selection/tree/evaluation.rs): the  *)
(*     walk over the selection graph that collects content commands.       *)
(***************************************************************************)
EXTENDS Integers, Sequences, FiniteSets, TLC

(***************************************************************************)
(* Bounds of the model.                                                    *)
(***************************************************************************)
\* bt node ids are 1..MaxNodeId
MaxNodeId == 2
\* abort handle values are 1..MaxHandle; every value is moved into at most
\* one register call (register takes the AbortHandle by value)
MaxHandle == 2
\* longest id vector passed to initialize_nodes / cleanup_nodes
MaxIds == 2
\* threads calling into the service concurrently
MaxThreads == 2

\* length of the evaluator's nodes vector and of its edges vector
MaxNodes == 2
MaxEdges == 2
\* longest outgoing_edges list of a selection node
MaxOut == 2
\* deepest nesting of handle calls followed (a walk on a cycle never ends)
MaxDepth == 4
\* most children of a tree definition or of a Sequence
MaxChildren == 2
\* most ticks of a Sequence followed
MaxTicks == 3
\* calls the threads make after their first ones, all threads together
MaxRecalls == 1

NodeIds == 1..MaxNodeId
Handles == 1..MaxHandle
Threads == 1..MaxThreads
NoThread == 0
NoId == 0
NoHandle == 0

Range(s) == {s[i] : i \in 1..Len(s)}
SeqsUpTo(S, n) == UNION {[1..k -> S] : k \in 0..n}
Count(x, s) == Cardinality({i \in 1..Len(s) : s[i] = x})

(***************************************************************************)
(* ReactiveServiceError and the Result values of register and abort.       *)
(***************************************************************************)
Ok == [kind |-> "Ok"]
AbortEntryNotFound(id) == [kind |-> "AbortEntryNotFound", id |-> id]
AbortEntryLockError(id) ==
    [kind |-> "AbortEntryLockError", id |-> id, cause |-> "poisoned lock"]
\* the call did not return: a panic unwound through it
Panicked == [kind |-> "Panic"]

(***************************************************************************)
(* AbortEntry: the node id and the mutex-guarded vector of handles.  The   *)
(* mutex is poisoned when a thread panicked while it held the guard.       *)
(***************************************************************************)
AbortEntry_new(bt_node_id) ==
    [bt_node_id |-> bt_node_id, handles |-> <<>>, poisoned |-> FALSE]

\* (mutant) the poison of the mutex is ignored
LockFails_ignores_poison(entry) == FALSE

\* handles.lock() of an entry: Err exactly when the mutex is poisoned
LockFails(entry) == entry.poisoned

\* (mutant) the vector is replaced by the new handle
AbortEntry_push_replaces(entry, handle) ==
    IF LockFails(entry)
    THEN [res |-> AbortEntryLockError(entry.bt_node_id), entry |-> entry]
    ELSE [res |-> Ok, entry |-> [entry EXCEPT !.handles = <<handle>>]]

AbortEntry_push(entry, handle) ==
    IF LockFails(entry)
    THEN [res |-> AbortEntryLockError(entry.bt_node_id), entry |-> entry]
    ELSE [res |-> Ok,
          entry |-> [entry EXCEPT !.handles = Append(@, handle)]]

\* (mutant) the first handle is skipped
AbortEntry_abort_skips_first(entry) ==
    IF LockFails(entry)
    THEN [res |-> AbortEntryLockError(entry.bt_node_id), entry |-> entry,
          signalled |-> <<>>]
    ELSE [res |-> Ok, entry |-> entry,
          signalled |-> IF entry.handles = <<>> THEN <<>> ELSE Tail(entry.handles)]

\* (mutant) the loop runs twice
AbortEntry_abort_twice(entry) ==
    IF LockFails(entry)
    THEN [res |-> AbortEntryLockError(entry.bt_node_id), entry |-> entry,
          signalled |-> <<>>]
    ELSE [res |-> Ok, entry |-> entry, signalled |-> entry.handles \o entry.handles]

\* (mutant) the handles are drained from the vector as they are signalled
AbortEntry_abort_drains(entry) ==
    IF LockFails(entry)
    THEN [res |-> AbortEntryLockError(entry.bt_node_id), entry |-> entry,
          signalled |-> <<>>]
    ELSE [res |-> Ok, entry |-> [entry EXCEPT !.handles = <<>>],
          signalled |-> entry.handles]

\* (mutant) the handles are aborted from the last pushed to the first
AbortEntry_abort_lifo(entry) ==
    IF LockFails(entry)
    THEN [res |-> AbortEntryLockError(entry.bt_node_id), entry |-> entry,
          signalled |-> <<>>]
    ELSE [res |-> Ok, entry |-> entry,
          signalled |-> [i \in 1..Len(entry.handles) |->
                            entry.handles[Len(entry.handles) + 1 - i]]]

\* signalled: the handles whose abort() is called, in the order of the calls
AbortEntry_abort(entry) ==
    IF LockFails(entry)
    THEN [res |-> AbortEntryLockError(entry.bt_node_id), entry |-> entry,
          signalled |-> <<>>]
    ELSE [res |-> Ok, entry |-> entry, signalled |-> entry.handles]

(***************************************************************************)
(* ReactiveService: abort_handles is a map from node id to AbortEntry,     *)
(* modelled as a function whose domain is the set of keys present.         *)
(***************************************************************************)
MapRemove(map, id) == [k \in DOMAIN map \ {id} |-> map[k]]
MapInsert(map, id, entry) ==
    [k \in DOMAIN map \cup {id} |-> IF k = id THEN entry ELSE map[k]]

\* (mutant) the whole map is cleared as soon as one id is named
cleanup_nodes_clears_map(map, bt_node_ids) ==
    IF bt_node_ids = <<>> THEN map ELSE [k \in {} |-> map[k]]

\* (mutant) only the first id of the vector is removed
cleanup_nodes_first_only(map, bt_node_ids) ==
    IF bt_node_ids = <<>> THEN map ELSE MapRemove(map, Head(bt_node_ids))

RECURSIVE cleanup_nodes(_, _)
cleanup_nodes(map, bt_node_ids) ==
    IF bt_node_ids = <<>> THEN map
    ELSE cleanup_nodes(MapRemove(map, Head(bt_node_ids)), Tail(bt_node_ids))

\* (mutant) an id that has an entry keeps it
RECURSIVE initialize_nodes_keeps_entry(_, _)
initialize_nodes_keeps_entry(map, bt_node_ids) ==
    IF bt_node_ids = <<>> THEN map
    ELSE initialize_nodes_keeps_entry(
             IF Head(bt_node_ids) \in DOMAIN map THEN map
             ELSE MapInsert(map, Head(bt_node_ids), AbortEntry_new(Head(bt_node_ids))),
             Tail(bt_node_ids))

RECURSIVE initialize_nodes(_, _)
initialize_nodes(map, bt_node_ids) ==
    IF bt_node_ids = <<>> THEN map
    ELSE initialize_nodes(
             MapInsert(map, Head(bt_node_ids), AbortEntry_new(Head(bt_node_ids))),
             Tail(bt_node_ids))

register(map, bt_node_id, handle) ==
    IF bt_node_id \notin DOMAIN map
    THEN [res |-> AbortEntryNotFound(bt_node_id), map |-> map]
    ELSE LET r == AbortEntry_push(map[bt_node_id], handle)
         IN  [res |-> r.res, map |-> [map EXCEPT ![bt_node_id] = r.entry]]

abort(map, bt_node_id) ==
    IF bt_node_id \notin DOMAIN map
    THEN [res |-> AbortEntryNotFound(bt_node_id), map |-> map,
          signalled |-> <<>>]
    ELSE LET r == AbortEntry_abort(map[bt_node_id])
         IN  [res |-> r.res, map |-> [map EXCEPT ![bt_node_id] = r.entry],
              signalled |-> r.signalled]

(***************************************************************************)
(* State.                                                                  *)
(*   abort_handles  the map of the service                                 *)
(*   aborted        per handle: abort() has been called on it              *)
(*   last           the last call: operation, arguments (of a vector of    *)
(*                  ids, which may repeat an id, the set of ids it names), *)
(*                  result, and the handles it signalled, in the order of  *)
(*                  the abort() calls                                      *)
(*   regs           history per handle: fresh (never given to register),   *)
(*                  rejected (register returned Err), held (register       *)
(*                  returned Ok for id and id's entry is still the one it  *)
(*                  went into), dropped (that entry was since replaced or  *)
(*                  removed)                                               *)
(*   initialized    history per node id: some initialize_nodes or          *)
(*                  cleanup_nodes call named it, and the last that did     *)
(*                  was initialize_nodes                                   *)
(*                                                                         *)
(* For calls that run concurrently (SpecConc):                             *)
(*   threads        per thread: its position in its call (pc), the call    *)
(*                  and its arguments, the vector it read at the start of  *)
(*                  a push (buf), how many handles its abort has signalled *)
(*                  (idx), and the result it returns (ret)                 *)
(*   refs           per node id: the threads holding a Ref to its entry,   *)
(*                  i.e. a read lock on the map's shard; insert and remove *)
(*                  take the write lock                                    *)
(*   mutex          per node id: the thread holding the guard of the       *)
(*                  entry's handles mutex, or NoThread                     *)
(***************************************************************************)
VARIABLES abort_handles, aborted, last, regs, initialized,
          threads, refs, mutex

\* history: per node id the handles whose register returned Ok since the
\* id's entry was made, in the order of the calls
VARIABLE registered

(***************************************************************************)
(* State of a select_commands call of the SelectionTreeEvaluator (SpecSel).*)
(* The evaluator is immutable and is an input of the call, as the payload  *)
(* is; an element of it is drawn when the walk first reads it and is kept  *)
(* from then on, so a behaviour is a walk over one fixed evaluator and     *)
(* every evaluator within the bounds is walked.                            *)
(*   payload        the ValuesPayload: per value name a value, or Absent   *)
(*   start_node, nodes, edges   the evaluator, as far as it has been read  *)
(*   sel_pc         "off", "call", "handle" (entry of handle), "edges"     *)
(*                  (the loop over the outgoing edges), "done"             *)
(*   current        the node handle was called with (StartRef or an index  *)
(*                  of nodes); pos: the loop's position in its edge list   *)
(*   selected_command_ids   the buffer of select_commands                  *)
(*   sel_result     what select_commands returned                          *)
(*   visited        history: the nodes handle was called with, in order    *)
(***************************************************************************)
VARIABLES payload, start_node, nodes, edges, sel_pc, current, pos,
          selected_command_ids, sel_result, visited

rsVars == <<abort_handles, aborted, last, regs, initialized, registered>>
concVars == <<threads, refs, mutex>>
(***************************************************************************)
(* State of a build of a behavior tree (SpecBuild) and of the ticks of a   *)
(* Sequence (SpecTick).                                                    *)
(*   root_def, subtree_defs   the definitions handed to the builder        *)
(*   build_result             what the build returned                      *)
(*   seq_children             the children of the Sequence instance        *)
(*   cursor                   the child the next tick of it starts at      *)
(*   ticks                    the ticks made so far                        *)
(*   last_tick                history: the children the last tick ticked,  *)
(*                            what each returned and what the tick returned*)
(*   log                      the lines PrintLog nodes wrote               *)
(***************************************************************************)
VARIABLES root_def, subtree_defs, build_result,
          seq_children, cursor, ticks, last_tick, log

buildVars == <<root_def, subtree_defs, build_result>>
tickVars == <<seq_children, cursor, ticks, last_tick, log>>
selVars == <<payload, start_node, nodes, edges, sel_pc, current, pos,
             selected_command_ids, sel_result, visited>>
vars == <<abort_handles, aborted, last, regs, initialized, threads, refs, mutex,
          payload, start_node, nodes, edges, sel_pc, current, pos,
          selected_command_ids, sel_result, visited,
          root_def, subtree_defs, build_result,
          seq_children, cursor, ticks, last_tick, log, registered>>

IdleThread ==
    [pc |-> "idle", op |-> "none", id |-> NoId, handle |-> NoHandle,
     ids |-> <<>>, buf |-> <<>>, idx |-> 0, ret |-> Ok, recalls |-> 0]

ConcIdle ==
    /\ threads = [t \in Threads |-> IdleThread]
    /\ refs = [i \in NodeIds |-> {}]
    /\ mutex = [i \in NodeIds |-> NoThread]

NoCall ==
    [op |-> "new", id |-> NoId, handle |-> NoHandle, ids |-> {},
     result |-> Ok, signalled |-> <<>>]

Call(op, id, handle, ids, result, signalled) ==
    [op |-> op, id |-> id, handle |-> handle, ids |-> Range(ids),
     result |-> result, signalled |-> signalled]

(***************************************************************************)
(* SelectionTreeEvaluator: the data select_commands works on.              *)
(* Vectors are functions on 0..len-1, so an index means what it means in   *)
(* the code.  Elements carry the ids the evaluator of the tests gives      *)
(* them: the start node has id 0, nodes[i] has id i + 1, edges[i] has id i.*)
(***************************************************************************)
FIRST_VALUE_NAME == "firstValueName"
SECOND_VALUE_NAME == "secondValueName"
ValueNames == {FIRST_VALUE_NAME, SECOND_VALUE_NAME}
Values == {"Sat", "Sun"}
\* the payload has no value of that name
Absent == "absent"
Payloads == [ValueNames -> Values \cup {Absent}]

NodeIndexes == 0..(MaxNodes - 1)
EdgeIndexes == 0..(MaxEdges - 1)
\* the node handle is first called with is start_node, which is not in nodes
StartRef == -1
\* an id no element has
BadId == 99

SelectionNodeAddress(id, index) == [id |-> id, index |-> index]
SelectionEdgeAddress(id, index) == [id |-> id, index |-> index]
\* a next_selection_node that has not been read yet
UnreadAddress == SelectionNodeAddress(-1, -1)
\* an element of the evaluator that has not been read yet
Unread == [kind |-> "Unread", id |-> -1]

\* the addresses an element can hold: of every element, of every element
\* under a wrong id, and one past the end of the vector
NodeAddresses ==
    {SelectionNodeAddress(i + 1, i) : i \in NodeIndexes}
    \cup {SelectionNodeAddress(BadId, i) : i \in NodeIndexes}
    \cup {SelectionNodeAddress(MaxNodes + 1, MaxNodes)}
EdgeAddresses ==
    {SelectionEdgeAddress(i, i) : i \in EdgeIndexes}
    \cup {SelectionEdgeAddress(BadId, i) : i \in EdgeIndexes}
    \cup {SelectionEdgeAddress(MaxEdges, MaxEdges)}

SelOk(value) == [kind |-> "Ok", value |-> value]
SelErr(error) == [kind |-> "Err", error |-> error]
NoResult == [kind |-> "None"]

MissingNode(address) == [error |-> "MissingNode", address |-> address]
MissingEdge(address) == [error |-> "MissingEdge", address |-> address]
SelectionNodeAddressIdMismatch(address) ==
    [error |-> "SelectionNodeAddressIdMismatch", address |-> address]
SelectionEdgeAddressIdMismatch(address) ==
    [error |-> "SelectionEdgeAddressIdMismatch", address |-> address]
SelectionNodeError(error) == [error |-> "SelectionNodeError", cause |-> error]
SelectionEdgeError(error) == [error |-> "SelectionEdgeError", cause |-> error]
MissingDictionaryKey(name) == [error |-> "MissingDictionaryKey", name |-> name]
DidNotFindLeftValue(name) == [error |-> "DidNotFindLeftValue", name |-> name]

\* A node: outgoing_edges is the part of its edge list read so far, and
\* more says whether the list may go on behind it.
\* A simple node selects its one command, here the command of its own id.
SimpleSelectionNode(id) ==
    [kind |-> "Simple", id |-> id, outgoing_edges |-> <<>>, more |-> TRUE,
     command |-> id]
\* A dictionary node selects by the payload's value of key_name.
DictionarySelectionNode(id) ==
    [kind |-> "Dictionary", id |-> id, outgoing_edges |-> <<>>, more |-> TRUE,
     key_name |-> FIRST_VALUE_NAME, default_command |-> 100 + id,
     mapping |-> [v \in {"Sat"} |-> 200 + id]]
NodeShapes(id) == {SimpleSelectionNode(id), DictionarySelectionNode(id)}

AlwaysTrueSelectionEdge(id) ==
    [kind |-> "AlwaysTrue", id |-> id, next_selection_node |-> UnreadAddress]
\* a logical expression of one condition: payload[left_name] = value
LogicalExpressionSelectionEdge(id, value) ==
    [kind |-> "LogicalExpression", id |-> id,
     next_selection_node |-> UnreadAddress,
     left_name |-> SECOND_VALUE_NAME, value |-> value]
EdgeShapes(id) ==
    {AlwaysTrueSelectionEdge(id)}
    \cup {LogicalExpressionSelectionEdge(id, v) : v \in Values}

\* Addressable::matches
matches(element, address) == address.id = element.id

\* SelectionEdge::can_pass
can_pass(edge, pl) ==
    IF edge.kind = "AlwaysTrue" THEN SelOk(TRUE)
    ELSE IF pl[edge.left_name] = Absent
         THEN SelErr(DidNotFindLeftValue(edge.left_name))
         ELSE SelOk(pl[edge.left_name] = edge.value)

\* SelectionNode::select_content_command_id
select_content_command_id(node, pl) ==
    IF node.kind = "Simple" THEN SelOk(node.command)
    ELSE IF pl[node.key_name] = Absent
         THEN SelErr(MissingDictionaryKey(node.key_name))
         ELSE IF pl[node.key_name] \in DOMAIN node.mapping
              THEN SelOk(node.mapping[pl[node.key_name]])
              ELSE SelOk(node.default_command)

get_node(ns, address) ==
    IF address.index \notin DOMAIN ns THEN SelErr(MissingNode(address))
    ELSE IF ~matches(ns[address.index], address)
         THEN SelErr(SelectionNodeAddressIdMismatch(address))
         ELSE SelOk(ns[address.index])

\* (mutant) the id of the element found is not compared with the address
get_edge_skips_id_check(es, address) ==
    IF address.index \notin DOMAIN es THEN SelErr(MissingEdge(address))
    ELSE SelOk(es[address.index])

get_edge(es, address) ==
    IF address.index \notin DOMAIN es THEN SelErr(MissingEdge(address))
    ELSE IF ~matches(es[address.index], address)
         THEN SelErr(SelectionEdgeAddressIdMismatch(address))
         ELSE SelOk(es[address.index])

\* (mutant) the command of a node is pushed twice
handle_select_pushes_twice(selected, node, pl) ==
    LET c == select_content_command_id(node, pl)
    IN  IF c.kind = "Ok" THEN SelOk(Append(Append(selected, c.value), c.value))
        ELSE SelErr(SelectionNodeError(c.error))

\* (mutant) the command goes to the front of the buffer
handle_select_prepends(selected, node, pl) ==
    LET c == select_content_command_id(node, pl)
    IN  IF c.kind = "Ok" THEN SelOk(<<c.value>> \o selected)
        ELSE SelErr(SelectionNodeError(c.error))

\* (mutant) a node that fails to select its command is passed over
handle_select_swallows_error(selected, node, pl) ==
    LET c == select_content_command_id(node, pl)
    IN  IF c.kind = "Ok" THEN SelOk(Append(selected, c.value))
        ELSE SelOk(selected)

\* handle, up to its loop: the command of current_node is pushed
handle_select(selected, node, pl) ==
    LET c == select_content_command_id(node, pl)
    IN  IF c.kind = "Ok" THEN SelOk(Append(selected, c.value))
        ELSE SelErr(SelectionNodeError(c.error))

\* (mutant) a passing edge is passed over and the loop goes on
handle_edge_skips_passing(ns, es, address, pl) ==
    LET e == get_edge(es, address)
    IN  IF e.kind = "Err" THEN [kind |-> "Return", result |-> e]
        ELSE LET p == can_pass(e.value, pl)
             IN  IF p.kind = "Err"
                 THEN [kind |-> "Return",
                       result |-> SelErr(SelectionEdgeError(p.error))]
                 ELSE [kind |-> "Continue"]

\* (mutant) an edge whose evaluation fails is passed over
handle_edge_ignores_edge_error(ns, es, address, pl) ==
    LET e == get_edge(es, address)
    IN  IF e.kind = "Err" THEN [kind |-> "Return", result |-> e]
        ELSE LET p == can_pass(e.value, pl)
             IN  IF p.kind = "Err" THEN [kind |-> "Continue"]
                 ELSE IF p.value
                      THEN LET n == get_node(ns, e.value.next_selection_node)
                           IN  IF n.kind = "Err"
                               THEN [kind |-> "Return", result |-> n]
                               ELSE [kind |-> "Handle",
                                     node |-> e.value.next_selection_node.index]
                      ELSE [kind |-> "Continue"]

\* handle, the body of its loop for one address of outgoing_edges: the call
\* returns an error, goes on with the next address, or ends in handle of
\* the node behind the edge
handle_edge(ns, es, address, pl) ==
    LET e == get_edge(es, address)
    IN  IF e.kind = "Err" THEN [kind |-> "Return", result |-> e]
        ELSE LET p == can_pass(e.value, pl)
             IN  IF p.kind = "Err"
                 THEN [kind |-> "Return",
                       result |-> SelErr(SelectionEdgeError(p.error))]
                 ELSE IF p.value
                      THEN LET n == get_node(ns, e.value.next_selection_node)
                           IN  IF n.kind = "Err"
                               THEN [kind |-> "Return", result |-> n]
                               ELSE [kind |-> "Handle",
                                     node |-> e.value.next_selection_node.index]
                      ELSE [kind |-> "Continue"]

\* no select_commands call (Spec and SpecConc)
SelIdle ==
    /\ payload = [n \in ValueNames |-> Absent]
    /\ start_node = Unread
    /\ nodes = [i \in NodeIndexes |-> Unread]
    /\ edges = [i \in EdgeIndexes |-> Unread]
    /\ sel_pc = "off"
    /\ current = StartRef
    /\ pos = 0
    /\ selected_command_ids = <<>>
    /\ sel_result = NoResult
    /\ visited = <<>>

\* no tree definition and no build
NoTree == [id |-> 0, children |-> <<>>, subtree_id |-> 0]
BuildIdle ==
    /\ root_def = NoTree
    /\ subtree_defs = <<>>
    /\ build_result = NoResult

\* no Sequence and no tick
NoTick ==
    [from |-> 0, ticked |-> <<>>, inputs |-> <<>>, returned |-> <<>>,
     result |-> NoResult]
TickIdle ==
    /\ seq_children = <<>>
    /\ cursor = 0
    /\ ticks = 0
    /\ last_tick = NoTick
    /\ log = <<>>

\* ReactiveService::new()
RsInit ==
    /\ abort_handles = <<>>
    /\ aborted = [h \in Handles |-> FALSE]
    /\ last = NoCall
    /\ regs = [h \in Handles |-> [id |-> NoId, state |-> "fresh"]]
    /\ initialized = [i \in NodeIds |-> FALSE]
    /\ registered = [i \in NodeIds |-> <<>>]

\* the calls of Spec run one at a time, each to completion
Sequential(A) ==
    A /\ UNCHANGED concVars /\ UNCHANGED selVars
      /\ UNCHANGED buildVars /\ UNCHANGED tickVars

Signal(flags, signalled) ==
    [h \in Handles |-> flags[h] \/ h \in Range(signalled)]

DropHeld(r, ids) ==
    [h \in Handles |->
        IF r[h].state = "held" /\ r[h].id \in Range(ids)
        THEN [r[h] EXCEPT !.state = "dropped"] ELSE r[h]]

CleanupNodes(ids) ==
    /\ abort_handles' = cleanup_nodes(abort_handles, ids)
    /\ last' = Call("cleanup_nodes", NoId, NoHandle, ids, Ok, <<>>)
    /\ regs' = DropHeld(regs, ids)
    /\ initialized' = [i \in NodeIds |-> initialized[i] /\ i \notin Range(ids)]
    /\ registered' = [i \in NodeIds |->
                          IF i \in Range(ids) THEN <<>> ELSE registered[i]]
    /\ UNCHANGED aborted

\* the whole call, made by the one caller of Spec; SpecConc has it insert by
\* insert (InitializeInsert)
InitializeNodes(ids) ==
    /\ abort_handles' = initialize_nodes(abort_handles, ids)
    /\ last' = Call("initialize_nodes", NoId, NoHandle, ids, Ok, <<>>)
    /\ regs' = DropHeld(regs, ids)
    /\ initialized' = [i \in NodeIds |-> initialized[i] \/ i \in Range(ids)]
    /\ registered' = [i \in NodeIds |->
                          IF i \in Range(ids) THEN <<>> ELSE registered[i]]
    /\ UNCHANGED aborted

Register(id, h) ==
    /\ regs[h].state = "fresh"
    /\ LET r == register(abort_handles, id, h)
       IN  /\ abort_handles' = r.map
           /\ last' = Call("register", id, h, <<>>, r.res, <<>>)
           /\ regs' = [regs EXCEPT ![h] =
                          IF r.res = Ok THEN [id |-> id, state |-> "held"]
                          ELSE [id |-> NoId, state |-> "rejected"]]
           /\ registered' = IF r.res = Ok
                            THEN [registered EXCEPT ![id] = Append(@, h)]
                            ELSE registered
    /\ UNCHANGED <<aborted, initialized>>

Abort(id) ==
    /\ LET r == abort(abort_handles, id)
       IN  /\ abort_handles' = r.map
           /\ aborted' = Signal(aborted, r.signalled)
           /\ last' = Call("abort", id, NoHandle, <<>>, r.res, r.signalled)
    /\ UNCHANGED <<regs, initialized, registered>>

\* abort(id) in which the k-th handle.abort() panics (the waker it wakes
\* panics): the flag of that handle is already set, the guard is dropped
\* during unwinding, which poisons the mutex, and the call does not return.
AbortPanics(id, k) ==
    /\ id \in DOMAIN abort_handles
    /\ ~LockFails(abort_handles[id])
    /\ k \in 1..Len(abort_handles[id].handles)
    /\ LET sig == SubSeq(abort_handles[id].handles, 1, k)
       IN  /\ aborted' = Signal(aborted, sig)
           /\ last' = Call("abort", id, NoHandle, <<>>, Panicked, sig)
    /\ abort_handles' = [abort_handles EXCEPT ![id].poisoned = TRUE]
    /\ UNCHANGED <<regs, initialized, registered>>

Init == RsInit /\ ConcIdle /\ SelIdle /\ BuildIdle /\ TickIdle

Next ==
    \/ \E ids \in SeqsUpTo(NodeIds, MaxIds) : Sequential(CleanupNodes(ids))
    \/ \E ids \in SeqsUpTo(NodeIds, MaxIds) : Sequential(InitializeNodes(ids))
    \/ \E id \in NodeIds, h \in Handles : Sequential(Register(id, h))
    \/ \E id \in NodeIds : Sequential(Abort(id))
    \/ \E id \in NodeIds, k \in 1..MaxHandle : Sequential(AbortPanics(id, k))

Spec == Init /\ [][Next]_vars

(***************************************************************************)
(* Concurrent calls.  The service starts with fresh entries for some of    *)
(* the node ids (new, then initialize_nodes), then every thread makes      *)
(* calls, one after the other: register of a handle not yet registered,    *)
(* abort, cleanup_nodes or initialize_nodes.  The calls of the threads     *)
(* interleave at the steps below.                                          *)
(*   get      DashMap::get: None, or a Ref that holds the shard's read     *)
(*            lock until it is dropped when the call returns               *)
(*   lock     Mutex::lock of the entry: waits while another thread holds   *)
(*            the guard; Err when the mutex is poisoned                    *)
(*   push     Vec::push under the guard: reads the vector, then writes it  *)
(*            back with the handle appended                                *)
(*   signal   one handle.abort() of the loop over the vector, which may    *)
(*            panic                                                        *)
(*   insert   DashMap::insert of one id: takes the shard's write lock, as  *)
(*            remove does, and replaces the entry the id had               *)
(*   remove   DashMap::remove of one id: takes the shard's write lock, so  *)
(*            waits while any Ref to the shard is alive                    *)
(* Every id has a shard of its own here, which blocks the least.           *)
(***************************************************************************)
ConcInit ==
    /\ \E S \in SUBSET NodeIds :
          /\ abort_handles = [i \in S |-> AbortEntry_new(i)]
          /\ last = [NoCall EXCEPT !.op = "initialize_nodes", !.ids = S]
          /\ initialized = [i \in NodeIds |-> i \in S]
    /\ aborted = [h \in Handles |-> FALSE]
    /\ regs = [h \in Handles |-> [id |-> NoId, state |-> "fresh"]]
    /\ registered = [i \in NodeIds |-> <<>>]
    /\ ConcIdle
    /\ SelIdle
    /\ BuildIdle
    /\ TickIdle

At(t, pc) == threads[t].pc = pc
Goto(t, pc) == threads' = [threads EXCEPT ![t].pc = pc]
\* (mutant) lock never waits
MutexFree_never_waits(m, id) == TRUE
MutexFree(m, id) == m[id] = NoThread
\* (mutant) remove never waits for the Refs to the shard
NoReader_never_waits(r, id) == TRUE
NoReader(r, id) == r[id] = {}

Return(t, res) == threads' = [threads EXCEPT ![t].pc = "returned", ![t].ret = res]

\* --- register(id, handle) ---
FreshHandles == {h \in Handles : regs[h].state = "fresh"}
CallRegister(t, id) ==
    /\ At(t, "idle") /\ FreshHandles # {}
    /\ LET h == CHOOSE g \in FreshHandles : \A f \in FreshHandles : g <= f
       IN  /\ threads' = [threads EXCEPT ![t].pc = "reg_get", ![t].op = "register",
                                          ![t].id = id, ![t].handle = h]
           /\ regs' = [regs EXCEPT ![h] = [id |-> id, state |-> "running"]]
    /\ UNCHANGED <<abort_handles, aborted, last, initialized, refs, mutex>>

RegisterGet(t) ==
    /\ At(t, "reg_get")
    /\ LET id == threads[t].id
       IN  IF id \notin DOMAIN abort_handles
           THEN /\ Return(t, AbortEntryNotFound(id))
                /\ regs' = [regs EXCEPT ![threads[t].handle] =
                               [id |-> NoId, state |-> "rejected"]]
                /\ UNCHANGED refs
           ELSE /\ refs' = [refs EXCEPT ![id] = @ \cup {t}]
                /\ Goto(t, "reg_lock")
                /\ UNCHANGED regs
    /\ UNCHANGED <<abort_handles, aborted, last, initialized, mutex>>

RegisterLock(t) ==
    /\ At(t, "reg_lock")
    /\ LET id == threads[t].id
       IN  /\ MutexFree(mutex, id)
           /\ IF LockFails(abort_handles[id])
              THEN /\ threads' = [threads EXCEPT ![t].pc = "reg_drop",
                        ![t].ret = AbortEntryLockError(abort_handles[id].bt_node_id)]
                   /\ UNCHANGED mutex
              ELSE /\ mutex' = [mutex EXCEPT ![id] = t]
                   /\ Goto(t, "reg_read")
    /\ UNCHANGED <<abort_handles, aborted, last, regs, initialized, refs>>

RegisterPushRead(t) ==
    /\ At(t, "reg_read")
    /\ threads' = [threads EXCEPT ![t].pc = "reg_write",
                                   ![t].buf = abort_handles[threads[t].id].handles]
    /\ UNCHANGED <<abort_handles, aborted, last, regs, initialized, refs, mutex>>

RegisterPushWrite(t) ==
    /\ At(t, "reg_write")
    /\ abort_handles' = [abort_handles EXCEPT ![threads[t].id].handles =
                             Append(threads[t].buf, threads[t].handle)]
    /\ threads' = [threads EXCEPT ![t].pc = "reg_unlock", ![t].buf = <<>>]
    /\ UNCHANGED <<aborted, last, regs, initialized, refs, mutex>>

RegisterUnlock(t) ==
    /\ At(t, "reg_unlock")
    /\ mutex' = [mutex EXCEPT ![threads[t].id] = NoThread]
    /\ threads' = [threads EXCEPT ![t].pc = "reg_drop", ![t].ret = Ok]
    /\ UNCHANGED <<abort_handles, aborted, last, regs, initialized, refs>>

RegisterReturn(t) ==
    /\ At(t, "reg_drop")
    /\ refs' = [refs EXCEPT ![threads[t].id] = @ \ {t}]
    /\ Goto(t, "returned")
    /\ regs' = [regs EXCEPT ![threads[t].handle] =
                   IF threads[t].ret = Ok
                   THEN [id |-> threads[t].id, state |-> "held"]
                   ELSE [id |-> NoId, state |-> "rejected"]]
    /\ UNCHANGED <<abort_handles, aborted, last, initialized, mutex>>

\* --- abort(id) ---
CallAbort(t, id) ==
    /\ At(t, "idle")
    /\ threads' = [threads EXCEPT ![t].pc = "abt_get", ![t].op = "abort",
                                   ![t].id = id]
    /\ UNCHANGED <<abort_handles, aborted, last, regs, initialized, refs, mutex>>

AbortGet(t) ==
    /\ At(t, "abt_get")
    /\ LET id == threads[t].id
       IN  IF id \notin DOMAIN abort_handles
           THEN Return(t, AbortEntryNotFound(id)) /\ UNCHANGED refs
           ELSE /\ refs' = [refs EXCEPT ![id] = @ \cup {t}]
                /\ Goto(t, "abt_lock")
    /\ UNCHANGED <<abort_handles, aborted, last, regs, initialized, mutex>>

AbortLock(t) ==
    /\ At(t, "abt_lock")
    /\ LET id == threads[t].id
       IN  /\ MutexFree(mutex, id)
           /\ IF LockFails(abort_handles[id])
              THEN /\ threads' = [threads EXCEPT ![t].pc = "abt_drop",
                        ![t].ret = AbortEntryLockError(abort_handles[id].bt_node_id)]
                   /\ UNCHANGED mutex
              ELSE /\ mutex' = [mutex EXCEPT ![id] = t]
                   /\ Goto(t, "abt_iter")
    /\ UNCHANGED <<abort_handles, aborted, last, regs, initialized, refs>>

AbortSignal(t) ==
    /\ At(t, "abt_iter")
    /\ threads[t].idx < Len(abort_handles[threads[t].id].handles)
    /\ LET h == abort_handles[threads[t].id].handles[threads[t].idx + 1]
       IN  aborted' = [aborted EXCEPT ![h] = TRUE]
    /\ threads' = [threads EXCEPT ![t].idx = @ + 1]
    /\ UNCHANGED <<abort_handles, last, regs, initialized, refs, mutex>>

\* the handle.abort() of this turn of the loop panics (the waker it wakes
\* panics): the flag of the handle is set, the rest of the vector is not
\* signalled, the guard is dropped during unwinding, which poisons the
\* mutex, and the call does not return a Result; the Ref is dropped next
AbortPanic(t) ==
    /\ At(t, "abt_iter")
    /\ threads[t].idx < Len(abort_handles[threads[t].id].handles)
    /\ LET h == abort_handles[threads[t].id].handles[threads[t].idx + 1]
       IN  aborted' = [aborted EXCEPT ![h] = TRUE]
    /\ abort_handles' = [abort_handles EXCEPT ![threads[t].id].poisoned = TRUE]
    /\ mutex' = [mutex EXCEPT ![threads[t].id] = NoThread]
    /\ threads' = [threads EXCEPT ![t].pc = "abt_drop", ![t].ret = Panicked]
    /\ UNCHANGED <<last, regs, initialized, refs>>

AbortUnlock(t) ==
    /\ At(t, "abt_iter")
    /\ threads[t].idx >= Len(abort_handles[threads[t].id].handles)
    /\ mutex' = [mutex EXCEPT ![threads[t].id] = NoThread]
    /\ threads' = [threads EXCEPT ![t].pc = "abt_drop", ![t].ret = Ok]
    /\ UNCHANGED <<abort_handles, aborted, last, regs, initialized, refs>>

AbortReturn(t) ==
    /\ At(t, "abt_drop")
    /\ refs' = [refs EXCEPT ![threads[t].id] = @ \ {t}]
    /\ Goto(t, "returned")
    /\ UNCHANGED <<abort_handles, aborted, last, regs, initialized, mutex>>

\* --- cleanup_nodes(ids) ---
CallCleanup(t, ids) ==
    /\ At(t, "idle")
    /\ threads' = [threads EXCEPT ![t].pc = "cln_loop", ![t].op = "cleanup_nodes",
                                   ![t].ids = ids]
    /\ UNCHANGED <<abort_handles, aborted, last, regs, initialized, refs, mutex>>

CleanupRemove(t) ==
    /\ At(t, "cln_loop")
    /\ threads[t].ids # <<>>
    /\ LET id == Head(threads[t].ids)
       IN  /\ NoReader(refs, id)
           /\ abort_handles' = MapRemove(abort_handles, id)
           /\ regs' = DropHeld(regs, <<id>>)
           /\ initialized' = [initialized EXCEPT ![id] = FALSE]
    /\ threads' = [threads EXCEPT ![t].ids = Tail(@)]
    /\ UNCHANGED <<aborted, last, refs, mutex>>

CleanupReturn(t) ==
    /\ At(t, "cln_loop")
    /\ threads[t].ids = <<>>
    /\ Return(t, Ok)
    /\ UNCHANGED <<abort_handles, aborted, last, regs, initialized, refs, mutex>>

\* --- initialize_nodes(ids) ---
CallInitialize(t, ids) ==
    /\ At(t, "idle")
    /\ threads' = [threads EXCEPT ![t].pc = "ini_loop", ![t].op = "initialize_nodes",
                                   ![t].ids = ids]
    /\ UNCHANGED <<abort_handles, aborted, last, regs, initialized, refs, mutex>>

\* one insert of the loop: DashMap::insert takes the shard's write lock, so
\* it waits while any Ref to the shard is alive; an entry the id had is
\* dropped with its handles
InitializeInsert(t) ==
    /\ At(t, "ini_loop")
    /\ threads[t].ids # <<>>
    /\ LET id == Head(threads[t].ids)
       IN  /\ NoReader(refs, id)
           /\ abort_handles' = MapInsert(abort_handles, id, AbortEntry_new(id))
           /\ regs' = DropHeld(regs, <<id>>)
           /\ initialized' = [initialized EXCEPT ![id] = TRUE]
    /\ threads' = [threads EXCEPT ![t].ids = Tail(@)]
    /\ UNCHANGED <<aborted, last, refs, mutex>>

InitializeReturn(t) ==
    /\ At(t, "ini_loop")
    /\ threads[t].ids = <<>>
    /\ Return(t, Ok)
    /\ UNCHANGED <<abort_handles, aborted, last, regs, initialized, refs, mutex>>

\* a thread whose call has returned goes on to make another call; a thread
\* whose call panicked makes none
RECURSIVE SumRecalls(_)
SumRecalls(S) ==
    IF S = {} THEN 0
    ELSE LET t == CHOOSE x \in S : TRUE
         IN  threads[t].recalls + SumRecalls(S \ {t})

Recall(t) ==
    /\ At(t, "returned")
    /\ threads[t].ret # Panicked
    /\ SumRecalls(Threads) < MaxRecalls
    /\ threads' = [threads EXCEPT ![t] =
                       [IdleThread EXCEPT !.recalls = threads[t].recalls + 1]]
    /\ UNCHANGED <<abort_handles, aborted, last, regs, initialized, refs, mutex>>

\* the select_commands variables stay as they are
Concurrent(A) ==
    A /\ UNCHANGED selVars /\ UNCHANGED buildVars /\ UNCHANGED tickVars
      /\ UNCHANGED registered

ConcNext ==
    \/ \E t \in Threads, id \in NodeIds : Concurrent(CallRegister(t, id))
    \/ \E t \in Threads : Concurrent(RegisterGet(t))
    \/ \E t \in Threads : Concurrent(RegisterLock(t))
    \/ \E t \in Threads : Concurrent(RegisterPushRead(t))
    \/ \E t \in Threads : Concurrent(RegisterPushWrite(t))
    \/ \E t \in Threads : Concurrent(RegisterUnlock(t))
    \/ \E t \in Threads : Concurrent(RegisterReturn(t))
    \/ \E t \in Threads, id \in NodeIds : Concurrent(CallAbort(t, id))
    \/ \E t \in Threads : Concurrent(AbortGet(t))
    \/ \E t \in Threads : Concurrent(AbortLock(t))
    \/ \E t \in Threads : Concurrent(AbortSignal(t))
    \/ \E t \in Threads : Concurrent(AbortPanic(t))
    \/ \E t \in Threads : Concurrent(AbortUnlock(t))
    \/ \E t \in Threads : Concurrent(AbortReturn(t))
    \/ \E t \in Threads, ids \in SeqsUpTo(NodeIds, MaxIds) : Concurrent(CallCleanup(t, ids))
    \/ \E t \in Threads : Concurrent(CleanupRemove(t))
    \/ \E t \in Threads : Concurrent(CleanupReturn(t))
    \/ \E t \in Threads, ids \in SeqsUpTo(NodeIds, MaxIds) : Concurrent(CallInitialize(t, ids))
    \/ \E t \in Threads : Concurrent(InitializeInsert(t))
    \/ \E t \in Threads : Concurrent(InitializeReturn(t))
    \/ \E t \in Threads : Concurrent(Recall(t))

SpecConc == ConcInit /\ [][ConcNext]_vars

(***************************************************************************)
(* One select_commands(payload) call on one evaluator.  Every recursive    *)
(* call of handle is the last thing its caller does and its result is      *)
(* returned unchanged, so the walk is the loop below: Handle is the entry  *)
(* of handle for current, HandleEdge one round of its loop over the        *)
(* outgoing edges, HandleReturn the end of that loop.                      *)
(***************************************************************************)
SelInit ==
    /\ payload \in Payloads
    /\ start_node \in NodeShapes(0)
    /\ nodes = [i \in NodeIndexes |-> Unread]
    /\ edges = [i \in EdgeIndexes |-> Unread]
    /\ sel_pc = "call"
    /\ current = StartRef
    /\ pos = 0
    /\ selected_command_ids = <<>>
    /\ sel_result = NoResult
    /\ visited = <<>>

NodeAt(ref) == IF ref = StartRef THEN start_node ELSE nodes[ref]

\* the current node with the address at position p of its edge list read
ReadAddress(node, p) ==
    IF p < Len(node.outgoing_edges) THEN {node}
    ELSE {[node EXCEPT !.outgoing_edges = Append(@, a),
                       !.more = Len(node.outgoing_edges) + 1 < MaxOut]
              : a \in EdgeAddresses}

\* the edges with the element an address points at read
ReadEdge(es, address) ==
    IF address.index \in DOMAIN es /\ es[address.index].kind = "Unread"
    THEN {[es EXCEPT ![address.index] = e] : e \in EdgeShapes(address.index)}
    ELSE {es}

Passes(es, address, pl) ==
    /\ get_edge(es, address).kind = "Ok"
    /\ can_pass(get_edge(es, address).value, pl) = SelOk(TRUE)

\* the edges with next_selection_node of a passing edge read
ReadNext(es, address, pl) ==
    IF Passes(es, address, pl)
       /\ es[address.index].next_selection_node = UnreadAddress
    THEN {[es EXCEPT ![address.index].next_selection_node = t]
              : t \in NodeAddresses}
    ELSE {es}

\* the nodes with the node behind a passing edge read
ReadNode(ns, es, address, pl) ==
    IF Passes(es, address, pl)
    THEN LET t == es[address.index].next_selection_node
         IN  IF t.index \in DOMAIN ns /\ ns[t.index].kind = "Unread"
             THEN {[ns EXCEPT ![t.index] = n] : n \in NodeShapes(t.index + 1)}
             ELSE {ns}
    ELSE {ns}

SelectCommands ==
    /\ sel_pc = "call"
    /\ selected_command_ids' = <<>>
    /\ current' = StartRef
    /\ sel_pc' = "handle"
    /\ UNCHANGED <<payload, start_node, nodes, edges, pos, sel_result, visited>>

Handle ==
    /\ sel_pc = "handle"
    /\ Len(visited) < MaxDepth
    /\ LET r == handle_select(selected_command_ids, NodeAt(current), payload)
       IN  IF r.kind = "Ok"
           THEN /\ selected_command_ids' = r.value
                /\ sel_pc' = "edges"
                /\ UNCHANGED sel_result
           ELSE /\ sel_result' = r
                /\ sel_pc' = "done"
                /\ UNCHANGED selected_command_ids
    /\ pos' = 0
    /\ visited' = Append(visited, current)
    /\ UNCHANGED <<payload, start_node, nodes, edges, current>>

HandleEdge ==
    /\ sel_pc = "edges"
    /\ pos < Len(NodeAt(current).outgoing_edges) \/ NodeAt(current).more
    /\ \E node \in ReadAddress(NodeAt(current), pos) :
         LET address == node.outgoing_edges[pos + 1]
             ns0 == IF current = StartRef THEN nodes
                    ELSE [nodes EXCEPT ![current] = node]
         IN  /\ start_node' = IF current = StartRef THEN node ELSE start_node
             /\ \E es0 \in ReadEdge(edges, address) :
                \E es \in ReadNext(es0, address, payload) :
                \E ns \in ReadNode(ns0, es, address, payload) :
                  LET r == handle_edge(ns, es, address, payload)
                  IN  /\ edges' = es
                      /\ nodes' = ns
                      /\ CASE r.kind = "Return" ->
                                /\ sel_result' = r.result
                                /\ sel_pc' = "done"
                                /\ UNCHANGED <<current, pos>>
                           [] r.kind = "Continue" ->
                                /\ pos' = pos + 1
                                /\ UNCHANGED <<current, sel_pc, sel_result>>
                           [] r.kind = "Handle" ->
                                /\ current' = r.node
                                /\ sel_pc' = "handle"
                                /\ pos' = 0
                                /\ UNCHANGED sel_result
    /\ UNCHANGED <<payload, selected_command_ids, visited>>

\* (mutant) the end of the edge list is taken for a missing edge
HandleReturn_missing_edge ==
    /\ sel_pc = "edges"
    /\ pos >= Len(NodeAt(current).outgoing_edges)
    /\ IF current = StartRef
       THEN start_node' = [start_node EXCEPT !.more = FALSE] /\ UNCHANGED nodes
       ELSE nodes' = [nodes EXCEPT ![current].more = FALSE] /\ UNCHANGED start_node
    /\ sel_result' = SelErr(MissingEdge(SelectionEdgeAddress(pos, pos)))
    /\ sel_pc' = "done"
    /\ UNCHANGED <<payload, edges, current, pos, selected_command_ids, visited>>

HandleReturn ==
    /\ sel_pc = "edges"
    /\ pos >= Len(NodeAt(current).outgoing_edges)
    /\ IF current = StartRef
       THEN start_node' = [start_node EXCEPT !.more = FALSE] /\ UNCHANGED nodes
       ELSE nodes' = [nodes EXCEPT ![current].more = FALSE] /\ UNCHANGED start_node
    /\ sel_result' = SelOk(selected_command_ids)
    /\ sel_pc' = "done"
    /\ UNCHANGED <<payload, edges, current, pos, selected_command_ids, visited>>

\* the ReactiveService is not involved
Selecting(A) ==
    A /\ UNCHANGED rsVars /\ UNCHANGED concVars
      /\ UNCHANGED buildVars /\ UNCHANGED tickVars

SelNext ==
    \/ Selecting(SelectCommands)
    \/ Selecting(Handle)
    \/ Selecting(HandleEdge)
    \/ Selecting(HandleReturn)

InitSel == RsInit /\ ConcIdle /\ SelInit /\ BuildIdle /\ TickIdle

SpecSel == InitSel /\ [][SelNext]_vars

\* select_commands is a sequential function: the thread that called it goes
\* on to its next step as long as it has one
SpecSelFair == SpecSel /\ WF_vars(SelNext)

(***************************************************************************)
(* The builder of behavior trees.  A tree definition is an id and the      *)
(* definitions of its children; a subtree definition carries the           *)
(* subtree_id it is referred to by.  The definitions are the ones of the   *)
(* test: trees of PrintLog and ExecuteSubTree actions, subtrees of         *)
(* PrintLog actions.                                                       *)
(***************************************************************************)
\* the subtree_id of the test; the next id names no subtree
SubTreeId == 10
SubTreeIds == {SubTreeId, SubTreeId + 1}

PrintLogActionNodeDefinition(id) == [kind |-> "PrintLog", id |-> id]
ExecuteSubTreeActionNodeDefinition(id, subtree_id) ==
    [kind |-> "ExecuteSubTree", id |-> id, subtree_id |-> subtree_id]
one_off_root_tree(id, children) ==
    [id |-> id, children |-> children, subtree_id |-> 0]
one_off_root_tree_with_id(id, children, subtree_id) ==
    [id |-> id, children |-> children, subtree_id |-> subtree_id]

PrintLogDefs == {PrintLogActionNodeDefinition(id) : id \in NodeIds}
ActionDefs ==
    PrintLogDefs
    \cup {ExecuteSubTreeActionNodeDefinition(id, sid) :
              id \in NodeIds, sid \in SubTreeIds}
RootDefs ==
    {one_off_root_tree(id, ch) :
         id \in NodeIds, ch \in SeqsUpTo(ActionDefs, MaxChildren)}
SubTreeDefLists ==
    {<<>>}
    \cup {<<one_off_root_tree_with_id(id, ch, SubTreeId)>> :
              id \in NodeIds, ch \in SeqsUpTo(PrintLogDefs, MaxChildren)}

BuildOk(tree) == [kind |-> "Ok", tree |-> tree]
BuildErr(error) == [kind |-> "Err", error |-> error]
UnknownSubTree(id) == [error |-> "UnknownSubTree", id |-> id]
DuplicateNodeId(id) == [error |-> "DuplicateNodeId", id |-> id]
EmptyComposite == [error |-> "EmptyComposite"]

\* the subtree definitions with that subtree_id
SubTreesOf(defs, subtree_id) ==
    {i \in 1..Len(defs) : defs[i].subtree_id = subtree_id}

\* Instances are built from the root down.  strict says whether two children
\* of one tree with the same id are reported; a child may have the id of its
\* tree or of a node of another tree, as in the test.
RECURSIVE build_children(_, _, _, _)
build_composite(def, defs, strict) ==
    IF def.children = <<>> THEN BuildErr(EmptyComposite)
    ELSE LET c == build_children(def.children, defs, strict, <<>>)
         IN  IF c.kind = "Err" THEN c
             ELSE BuildOk([kind |-> "Root", id |-> def.id, children |-> c.tree])

build_children(children, defs, strict, built) ==
    IF children = <<>> THEN BuildOk(built)
    ELSE LET d == Head(children)
         IN  IF strict /\ \E i \in 1..Len(built) : built[i].id = d.id
             THEN BuildErr(DuplicateNodeId(d.id))
             ELSE IF d.kind = "ExecuteSubTree"
                  THEN IF SubTreesOf(defs, d.subtree_id) = {}
                       THEN BuildErr(UnknownSubTree(d.subtree_id))
                       ELSE LET i == CHOOSE i \in SubTreesOf(defs, d.subtree_id) : TRUE
                                sub == build_composite(defs[i], defs, strict)
                            IN  IF sub.kind = "Err" THEN sub
                                ELSE build_children(Tail(children), defs, strict,
                                         Append(built, [kind |-> "ExecuteSubTree",
                                                        id |-> d.id,
                                                        subtree |-> sub.tree]))
                  ELSE build_children(Tail(children), defs, strict,
                           Append(built, [kind |-> "PrintLog", id |-> d.id]))

build_tree(root, defs, strict) == build_composite(root, defs, strict)

\* the ids of the nodes of an instance, as the builder meets them
RECURSIVE InstanceIdsOf(_)
InstanceIdsOf(children) ==
    IF children = <<>> THEN <<>>
    ELSE LET c == Head(children)
         IN  (IF c.kind = "ExecuteSubTree"
              THEN <<c.id, c.subtree.id>> \o InstanceIdsOf(c.subtree.children)
              ELSE <<c.id>>) \o InstanceIdsOf(Tail(children))
InstanceIds(tree) == <<tree.id>> \o InstanceIdsOf(tree.children)

BuildInit ==
    /\ root_def \in RootDefs
    /\ subtree_defs \in SubTreeDefLists
    /\ build_result = NoResult

\* the build; a tree that is built has an AbortEntry made for every node id
BuildTree ==
    /\ build_result = NoResult
    /\ \E strict \in BOOLEAN :
         LET r == build_tree(root_def, subtree_defs, strict)
         IN  /\ build_result' = r
             /\ IF r.kind = "Ok"
                THEN InitializeNodes(InstanceIds(r.tree))
                ELSE UNCHANGED rsVars
    /\ UNCHANGED <<root_def, subtree_defs>>

Building(A) ==
    A /\ UNCHANGED concVars /\ UNCHANGED selVars /\ UNCHANGED tickVars

InitBuild == RsInit /\ ConcIdle /\ SelIdle /\ TickIdle /\ BuildInit

NextBuild == Building(BuildTree)

SpecBuild == InitBuild /\ [][NextBuild]_vars

(***************************************************************************)
(* The tick engine: ticks of one Sequence instance.  Its children are      *)
(* PrintLog actions (ActionBTNode::PrintLog) and other nodes, of which     *)
(* only the result of a tick is known.  The input of a tick is, per child, *)
(* whether the log sink takes the line of a PrintLog, and what another     *)
(* node returns.                                                           *)
(***************************************************************************)
Success == "Success"
Failure == "Failure"
Running == "Running"
TickOk(status) == [kind |-> "Ok", status |-> status]
TickErr(error) == [kind |-> "Err", error |-> error]
Io == [error |-> "Io"]
ChildTickError == [error |-> "ChildTickError"]

PrintLogChild(i) == [kind |-> "PrintLog", id |-> i]
OtherChild(i) == [kind |-> "Other", id |-> i]
SequenceChildren ==
    {ch \in SeqsUpTo({"PrintLog", "Other"}, MaxChildren) : ch # <<>>}

OtherResults ==
    {TickOk(Success), TickOk(Failure), TickOk(Running), TickErr(ChildTickError)}
SinkInputs == {[sink_ok |-> b, result |-> NoResult] : b \in BOOLEAN}
OtherInputs == {[sink_ok |-> TRUE, result |-> r] : r \in OtherResults}
InputsOf(child) == IF child.kind = "PrintLog" THEN SinkInputs ELSE OtherInputs
TickInputs(children) ==
    {in \in [1..Len(children) -> SinkInputs \cup OtherInputs] :
         \A i \in 1..Len(children) : in[i] \in InputsOf(children[i])}

\* PrintLogActionNode::tick: one line to the sink, Success
PrintLogActionNode_tick(node, sink_ok) ==
    IF sink_ok THEN [result |-> TickOk(Success), lines |-> <<node.id>>]
    ELSE [result |-> TickErr(Io), lines |-> <<>>]

\* (mutant) an error of the wrapped node is turned into the status Failure
ActionBTNode_tick_failure_for_error(node, sink_ok) ==
    LET r == PrintLogActionNode_tick(node, sink_ok)
    IN  IF r.result.kind = "Err" THEN [r EXCEPT !.result = TickOk(Failure)]
        ELSE r

\* ActionBTNode::tick
ActionBTNode_tick(node, sink_ok) == PrintLogActionNode_tick(node, sink_ok)

tick_child(child, in) ==
    IF child.kind = "PrintLog" THEN ActionBTNode_tick(child, in.sink_ok)
    ELSE [result |-> in.result, lines |-> <<>>]

\* (mutant) the Sequence goes on behind a child that returned Failure
RECURSIVE Sequence_tick_passes_failure(_, _, _, _)
Sequence_tick_passes_failure(children, i, in, done) ==
    IF i > Len(children)
    THEN [done EXCEPT !.result = TickOk(Success), !.cursor = 0]
    ELSE LET r == tick_child(children[i], in[i])
             now == [done EXCEPT !.ticked = Append(@, i),
                                 !.inputs = Append(@, in[i]),
                                 !.returned = Append(@, r.result),
                                 !.lines = @ \o r.lines]
         IN  IF r.result \in {TickOk(Success), TickOk(Failure)}
             THEN Sequence_tick_passes_failure(children, i + 1, in, now)
             ELSE IF r.result = TickOk(Running)
                  THEN [now EXCEPT !.result = r.result, !.cursor = i - 1]
                  ELSE [now EXCEPT !.result = r.result, !.cursor = 0]

\* Sequence::tick from child i on: the children are ticked in order; the
\* first that does not return Success ends the tick with what it returned;
\* at Running the cursor stays on that child
RECURSIVE Sequence_tick(_, _, _, _)
Sequence_tick(children, i, in, done) ==
    IF i > Len(children)
    THEN [done EXCEPT !.result = TickOk(Success), !.cursor = 0]
    ELSE LET r == tick_child(children[i], in[i])
             now == [done EXCEPT !.ticked = Append(@, i),
                                 !.inputs = Append(@, in[i]),
                                 !.returned = Append(@, r.result),
                                 !.lines = @ \o r.lines]
         IN  IF r.result = TickOk(Success)
             THEN Sequence_tick(children, i + 1, in, now)
             ELSE IF r.result = TickOk(Running)
                  THEN [now EXCEPT !.result = r.result, !.cursor = i - 1]
                  ELSE [now EXCEPT !.result = r.result, !.cursor = 0]

TickStart(from) ==
    [from |-> from, ticked |-> <<>>, inputs |-> <<>>, returned |-> <<>>,
     lines |-> <<>>, result |-> NoResult, cursor |-> from]

TickInit ==
    /\ \E kinds \in SequenceChildren :
         seq_children = [i \in 1..Len(kinds) |->
                            IF kinds[i] = "PrintLog" THEN PrintLogChild(i)
                            ELSE OtherChild(i)]
    /\ cursor = 0
    /\ ticks = 0
    /\ last_tick = NoTick
    /\ log = <<>>

Tick ==
    /\ ticks < MaxTicks
    /\ \E in \in TickInputs(seq_children) :
         LET t == Sequence_tick(seq_children, cursor + 1, in, TickStart(cursor))
         IN  /\ cursor' = t.cursor
             /\ last_tick' = [from |-> t.from, ticked |-> t.ticked,
                              inputs |-> t.inputs, returned |-> t.returned,
                              result |-> t.result]
             /\ log' = log \o t.lines
    /\ ticks' = ticks + 1
    /\ UNCHANGED seq_children

Ticking(A) ==
    A /\ UNCHANGED rsVars /\ UNCHANGED concVars /\ UNCHANGED selVars
      /\ UNCHANGED buildVars

InitTick == RsInit /\ ConcIdle /\ SelIdle /\ BuildIdle /\ TickInit

NextTick == Ticking(Tick)

SpecTick == InitTick /\ [][NextTick]_vars

(***************************************************************************)
(* Properties of the ReactiveService.                                      *)
(***************************************************************************)
IsCall(c, ops) == c.op \in ops
Returned(c, op, res) == c.op = op /\ c.result = res
HeldUnder(id) == {h \in Handles : regs[h] = [id |-> id, state |-> "held"]}
EverOkUnder(id) ==
    {h \in Handles : regs[h].id = id /\ regs[h].state \in {"held", "dropped"}}

\* C1: an id has an entry exactly when the last initialize_nodes /
\* cleanup_nodes call naming it was initialize_nodes; register(id, h) and
\* abort(id) on an id without one return AbortEntryNotFound(id), signal no
\* handle and leave the map as it was (no entry is created).
C1_NotFoundWithoutEntry ==
    [][ /\ \A id \in NodeIds : (id \in DOMAIN abort_handles') <=> initialized'[id]
        /\ (IsCall(last', {"register", "abort"}) /\ ~initialized[last'.id])
              => /\ last'.result = AbortEntryNotFound(last'.id)
                 /\ last'.signalled = <<>>
                 /\ aborted' = aborted
                 /\ abort_handles' = abort_handles ]_vars

\* abort(id) of an id that had an entry holding a handle, after cleanup_nodes
\* removed it, returned AbortEntryNotFound(id)
C1_Witness ==
    /\ Returned(last, "abort", AbortEntryNotFound(last.id))
    /\ \E h \in Handles : regs[h] = [id |-> last.id, state |-> "dropped"]

\* C2: a successful abort(id) calls abort() on exactly the handles in id's
\* entry, all of which are then aborted, and on no handle in the entry of
\* another id.
C2_AbortSignalsEntry ==
    Returned(last, "abort", Ok) =>
        /\ last.id \in DOMAIN abort_handles
        /\ Range(last.signalled) = Range(abort_handles[last.id].handles)
        /\ \A h \in Range(abort_handles[last.id].handles) : aborted[h]
        /\ \A other \in DOMAIN abort_handles \ {last.id} :
              Range(abort_handles[other].handles) \cap Range(last.signalled) = {}

\* abort(id) succeeded on an entry with a handle while another id holds a
\* handle that is not aborted
C2_Witness ==
    /\ Returned(last, "abort", Ok)
    /\ Len(last.signalled) >= 1
    /\ \E other \in DOMAIN abort_handles \ {last.id} :
          \E i \in 1..Len(abort_handles[other].handles) :
              ~aborted[abort_handles[other].handles[i]]

\* C3 (as claimed): once a node's entry has been removed, every handle that
\* was successfully registered for the node has been signalled.
C3_RemovedEntryHandlesAborted ==
    \A h \in Handles :
        (regs[h].state \in {"held", "dropped"}
            /\ regs[h].id \notin DOMAIN abort_handles) => aborted[h]

\* C4 (as claimed): a successful abort(id) signals every handle for which
\* register(id, h) ever returned Ok.
C4_AbortReachesEveryOkRegister ==
    Returned(last, "abort", Ok) => EverOkUnder(last.id) \subseteq Range(last.signalled)

\* C4 (amended): a successful abort(id) signals every handle for which
\* register(id, h) returned Ok since id's entry was last created by
\* initialize_nodes.
C4_AbortReachesHeld ==
    Returned(last, "abort", Ok) =>
        \A h \in HeldUnder(last.id) : h \in Range(last.signalled) /\ aborted[h]

\* abort(id) succeeded while register had returned Ok for two handles of id
\* since its entry was created
C4_Witness ==
    /\ Returned(last, "abort", Ok)
    /\ Cardinality(HeldUnder(last.id)) >= 2

\* C5: a successful abort(id) calls abort() exactly once on each handle that
\* register(id, h) put into id's entry.
C5_SignalledExactlyOnce ==
    Returned(last, "abort", Ok) =>
        \A h \in HeldUnder(last.id) : Count(h, last.signalled) = 1

\* register(id, h) returned Ok and a later abort(id) signalled h
C5_Witness ==
    /\ Returned(last, "abort", Ok)
    /\ \E h \in HeldUnder(last.id) : Count(h, last.signalled) = 1 /\ aborted[h]

\* C6: a successful abort(id) leaves the map unchanged (the handles stay in
\* id's list in the same order), so abort(id) called again returns Ok and
\* signals the same handles in the same order, again leaving the map unchanged.
C6_AbortKeepsRegistry ==
    [][ Returned(last', "abort", Ok) =>
          /\ abort_handles' = abort_handles
          /\ abort(abort_handles', last'.id) =
                [res |-> Ok, map |-> abort_handles', signalled |-> last'.signalled]
      ]_vars

\* abort(id) succeeded on a list of two handles, which are still in the list
C6_Witness ==
    /\ Returned(last, "abort", Ok)
    /\ Len(abort_handles[last.id].handles) = 2
    /\ abort_handles[last.id].handles = last.signalled

\* C7: after initialize_nodes(ids) every id the vector names has a fresh
\* entry with an empty handle list, register and abort on it succeed, and
\* calling initialize_nodes again with a vector of the same ids changes
\* nothing.
C7_InitializeNodes ==
    IsCall(last, {"initialize_nodes"}) =>
        /\ \A id \in last.ids :
              /\ id \in DOMAIN abort_handles
              /\ abort_handles[id] = AbortEntry_new(id)
              /\ \A h \in Handles : register(abort_handles, id, h).res = Ok
              /\ abort(abort_handles, id).res = Ok
        /\ \A ids \in SeqsUpTo(NodeIds, MaxIds) :
              Range(ids) = last.ids =>
                  initialize_nodes(abort_handles, ids) = abort_handles

\* initialize_nodes named an id whose entry held a handle, and replaced it
C7_Witness ==
    /\ IsCall(last, {"initialize_nodes"})
    /\ \E h \in Handles : regs[h].state = "dropped" /\ regs[h].id \in last.ids

\* C8: with concurrent calls, a register that found the entry of its id
\* (it holds the Ref to it) returns Ok unless the mutex of the entry is
\* poisoned; each handle is in the list of an id at most once, is there once
\* its register has returned Ok (and the entry was not removed or replaced
\* since), and is there only if its register for that id has started; so
\* once no register is running the list holds exactly the handles registered
\* for the id.
MidRegister(t) == threads[t].op = "register" /\ threads[t].pc \notin {"idle", "returned"}
C8_ConcurrentRegister ==
    /\ \A t \in Threads :
          (threads[t].op = "register" /\ At(t, "reg_drop")) =>
              /\ threads[t].id \in DOMAIN abort_handles
              /\ threads[t].ret = Ok \/ abort_handles[threads[t].id].poisoned
              /\ threads[t].ret = Ok =>
                    Count(threads[t].handle,
                          abort_handles[threads[t].id].handles) = 1
    /\ \A id \in DOMAIN abort_handles : \A h \in Handles :
          LET n == Count(h, abort_handles[id].handles)
          IN  /\ n <= 1
              /\ h \in HeldUnder(id) => n = 1
              /\ n = 1 => regs[h].id = id /\ regs[h].state \in {"running", "held"}
    /\ (\A t \in Threads : ~MidRegister(t)) =>
          \A id \in DOMAIN abort_handles :
              Range(abort_handles[id].handles) = HeldUnder(id)

\* two threads have returned Ok from register on the same id, whose list
\* holds both handles
C8_Witness ==
    \E t, u \in Threads :
        /\ t # u
        /\ \A x \in {t, u} : threads[x].op = "register" /\ At(x, "returned")
                               /\ threads[x].ret = Ok
        /\ threads[t].id = threads[u].id
        /\ threads[t].id \in DOMAIN abort_handles
        /\ Len(abort_handles[threads[t].id].handles) = 2

\* C9: register(id, h) and abort(id) on an entry whose mutex is poisoned
\* return AbortEntryLockError with the entry's id, which is id; register adds
\* no handle and abort signals none.
C9_PoisonedLock ==
    [][ (/\ IsCall(last', {"register", "abort"})
         /\ last'.id \in DOMAIN abort_handles
         /\ abort_handles[last'.id].poisoned)
          => /\ last'.result = AbortEntryLockError(abort_handles[last'.id].bt_node_id)
             /\ last'.result.id = last'.id
             /\ abort_handles' = abort_handles
             /\ aborted' = aborted
             /\ last'.signalled = <<>> ]_vars

\* register on a poisoned entry that holds handles returned the lock error
C9_Witness ==
    /\ last.op = "register"
    /\ last.result.kind = "AbortEntryLockError"
    /\ abort_handles[last.id].handles # <<>>
    /\ regs[last.handle].state = "rejected"

(***************************************************************************)
(* Properties of the SelectionTreeEvaluator.                               *)
(***************************************************************************)
EdgeYields(address, outcome) ==
    /\ get_edge(edges, address).kind = "Ok"
    /\ can_pass(get_edge(edges, address).value, payload) = outcome

\* position p of the node's edge list holds its first passing edge
FirstPassingAt(node, p) ==
    /\ p \in 1..Len(node.outgoing_edges)
    /\ EdgeYields(node.outgoing_edges[p], SelOk(TRUE))
    /\ \A q \in 1..(p - 1) : EdgeYields(node.outgoing_edges[q], SelOk(FALSE))

\* the edge at the address leads to the node with that index of nodes
LeadsTo(address, ref) ==
    LET next == get_edge(edges, address).value.next_selection_node
    IN  /\ get_node(nodes, next).kind = "Ok"
        /\ next.index = ref

\* the whole edge list of the node has been walked and no edge of it passes
NoPassingEdge(node) ==
    /\ ~node.more
    /\ \A q \in 1..Len(node.outgoing_edges) :
           EdgeYields(node.outgoing_edges[q], SelOk(FALSE))

CommandOf(ref) == select_content_command_id(NodeAt(ref), payload)

\* C10: when select_commands returns Ok, the nodes handle was called with
\* form a path from start_node in which every node but the last is followed
\* by the node behind its first passing outgoing edge (every edge declared
\* before it resolves and does not pass), the last node has no passing
\* outgoing edge, and the returned sequence is the commands these nodes
\* select, one per node, in path order.
C10_FirstPassingPath ==
    (sel_pc = "done" /\ sel_result.kind = "Ok") =>
        /\ visited # <<>>
        /\ visited[1] = StartRef
        /\ Len(sel_result.value) = Len(visited)
        /\ \A i \in 1..Len(visited) :
               CommandOf(visited[i]) = SelOk(sel_result.value[i])
        /\ \A i \in 1..(Len(visited) - 1) :
               \E p \in 1..MaxOut :
                   /\ FirstPassingAt(NodeAt(visited[i]), p)
                   /\ LeadsTo(NodeAt(visited[i]).outgoing_edges[p], visited[i + 1])
        /\ NoPassingEdge(NodeAt(visited[Len(visited)]))

\* select_commands returned the commands of a path of two nodes: the start
\* node was left through its second edge after its first did not pass, and
\* the node behind it has an edge, which does not pass
C10_Witness ==
    /\ sel_pc = "done"
    /\ sel_result.kind = "Ok"
    /\ Len(sel_result.value) = 2
    /\ FirstPassingAt(NodeAt(visited[1]), 2)
    /\ NodeAt(visited[2]).outgoing_edges # <<>>

\* the node a step of the loop works on, as it is after the step
NodeAtNext(ref) == IF ref = StartRef THEN start_node' ELSE nodes'[ref]

\* EdgeYields, FirstPassingAt and LeadsTo on given vectors
EdgeYieldsIn(es, address, outcome) ==
    /\ get_edge(es, address).kind = "Ok"
    /\ can_pass(get_edge(es, address).value, payload) = outcome

FirstPassingIn(es, out, p) ==
    /\ p \in 1..Len(out)
    /\ EdgeYieldsIn(es, out[p], SelOk(TRUE))
    /\ \A q \in 1..(p - 1) : EdgeYieldsIn(es, out[q], SelOk(FALSE))

LeadsToIn(ns, es, address, ref) ==
    LET next == get_edge(es, address).value.next_selection_node
    IN  /\ get_node(ns, next).kind = "Ok"
        /\ next.index = ref

\* C11: a round of the loop over the outgoing edges of the current node
\* works on the address at the loop's position and reads no other edge;
\* the loop moves to the next position only over an edge that does not
\* pass, and the walk descends only through an edge that passes, into the
\* node behind it, after every edge declared before it did not pass and
\* with nothing declared behind it read: the siblings behind the first
\* passing edge are neither resolved nor evaluated, whatever they are.
C11_FirstPassingEdgeWins ==
    [][ (sel_pc = "edges" /\ pos < Len(NodeAtNext(current).outgoing_edges)) =>
          LET out == NodeAtNext(current).outgoing_edges
          IN  /\ \A i \in EdgeIndexes :
                     i # out[pos + 1].index => edges'[i] = edges[i]
              /\ sel_pc' = "edges" =>
                     /\ pos' = pos + 1
                     /\ current' = current
                     /\ EdgeYieldsIn(edges', out[pos + 1], SelOk(FALSE))
              /\ sel_pc' = "handle" =>
                     /\ FirstPassingIn(edges', out, pos + 1)
                     /\ LeadsToIn(nodes', edges', out[pos + 1], current')
                     /\ Len(out) = pos + 1 ]_vars

\* the walk left the start node through its first edge with the rest of
\* the start node's edge list unread, and returned Ok
C11_Witness ==
    /\ sel_pc = "done"
    /\ sel_result.kind = "Ok"
    /\ Len(visited) >= 2
    /\ FirstPassingAt(start_node, 1)
    /\ Len(start_node.outgoing_edges) = 1
    /\ start_node.more

LastVisited == visited[Len(visited)]

\* what the walk returns when it fails at this address of the node's list
ErrorAt(address) ==
    LET e == get_edge(edges, address)
    IN  IF e.kind = "Err" THEN e
        ELSE LET p == can_pass(e.value, payload)
             IN  IF p.kind = "Err" THEN SelErr(SelectionEdgeError(p.error))
                 ELSE IF p.value
                      THEN get_node(nodes, e.value.next_selection_node)
                      ELSE SelOk(FALSE)

\* C12: when select_commands returns an error, the result holds that error
\* and no command list, and the walk stopped where the error arose: either
\* the last node handle was called with failed to select its command, and
\* the error is SelectionNodeError(e) of its error e, or every edge of that
\* node before the loop's position resolved and did not pass, nothing
\* behind that position was read, and the error is the one of the address
\* at that position: the error of get_edge or of get_node as it is, the
\* error e of can_pass as SelectionEdgeError(e).
C12_ErrorStopsWalk ==
    (sel_pc = "done" /\ sel_result.kind = "Err") =>
        /\ DOMAIN sel_result = {"kind", "error"}
        /\ IF CommandOf(LastVisited).kind = "Err"
           THEN /\ sel_result =
                       SelErr(SelectionNodeError(CommandOf(LastVisited).error))
                /\ Len(selected_command_ids) = Len(visited) - 1
           ELSE LET out == NodeAt(LastVisited).outgoing_edges
                IN  /\ Len(out) = pos + 1
                    /\ \A q \in 1..pos : EdgeYields(out[q], SelOk(FALSE))
                    /\ ErrorAt(out[pos + 1]).kind = "Err"
                    /\ sel_result = ErrorAt(out[pos + 1])
                    /\ Len(selected_command_ids) = Len(visited)

\* select_commands returned SelectionEdgeError for an edge of the second
\* node of the walk, the commands of two nodes having been collected, with
\* the rest of that node's edge list unread
C12_Witness ==
    /\ sel_pc = "done"
    /\ sel_result.kind = "Err"
    /\ sel_result.error.error = "SelectionEdgeError"
    /\ Len(selected_command_ids) = 2
    /\ NodeAt(LastVisited).more

\* C13: in a round of the loop the edge address at the loop's position
\* resolves exactly when its index is inside edges and the edge there has
\* its id, and the target address of a passing edge resolves exactly when
\* its index is inside nodes and the node there has its id.  An edge
\* address out of range makes the walk return MissingEdge(address), one
\* with another id SelectionEdgeAddressIdMismatch(address); a target out of
\* range makes it return MissingNode(target), one with another id
\* SelectionNodeAddressIdMismatch(target); an address that resolves gives
\* none of these errors, and the walk goes on into a target that resolves.
C13_AddressResolution ==
    [][ (sel_pc = "edges" /\ pos < Len(NodeAtNext(current).outgoing_edges)) =>
          LET a == NodeAtNext(current).outgoing_edges[pos + 1]
              inside == a.index \in 0..(MaxEdges - 1)
          IN  /\ ~inside =>
                     sel_pc' = "done" /\ sel_result' = SelErr(MissingEdge(a))
              /\ (inside /\ edges'[a.index].id # a.id) =>
                     /\ sel_pc' = "done"
                     /\ sel_result' = SelErr(SelectionEdgeAddressIdMismatch(a))
              /\ (inside /\ edges'[a.index].id = a.id) =>
                     /\ sel_result' \notin
                            {SelErr(MissingEdge(a)),
                             SelErr(SelectionEdgeAddressIdMismatch(a))}
                     /\ can_pass(edges'[a.index], payload) = SelOk(TRUE) =>
                          LET t == edges'[a.index].next_selection_node
                              found == t.index \in 0..(MaxNodes - 1)
                          IN  /\ ~found =>
                                     /\ sel_pc' = "done"
                                     /\ sel_result' = SelErr(MissingNode(t))
                              /\ (found /\ nodes'[t.index].id # t.id) =>
                                     /\ sel_pc' = "done"
                                     /\ sel_result' =
                                          SelErr(SelectionNodeAddressIdMismatch(t))
                              /\ (found /\ nodes'[t.index].id = t.id) =>
                                     /\ sel_pc' = "handle"
                                     /\ current' = t.index
                                     /\ sel_result' = sel_result ]_vars

\* the walk went through an edge into a node, both addresses resolving, and
\* failed there on an edge address that is in range but has another id
C13_Witness ==
    /\ sel_pc = "done"
    /\ sel_result.kind = "Err"
    /\ sel_result.error.error = "SelectionEdgeAddressIdMismatch"
    /\ sel_result.error.address.index \in EdgeIndexes
    /\ Len(visited) = 2

\* handle was called with the same node twice
Revisited == \E i, j \in 1..Len(visited) : i < j /\ visited[i] = visited[j]

\* C14: once the walk comes back to a node it has visited, select_commands
\* has ended with the error CycleDetected.
C14_CycleDetected ==
    Revisited =>
        /\ sel_pc = "done"
        /\ sel_result = SelErr([error |-> "CycleDetected"])

\* C15: when the loop over the outgoing edges of the current node comes to
\* the end of the list, every edge of it having resolved and not passed (or
\* the list being empty), the walk ends there: select_commands returns Ok
\* with the commands collected, one per node handle was called with, the
\* last of them the command of that node.
C15_DeadEndIsOk ==
    [][ (sel_pc = "edges" /\ pos >= Len(NodeAtNext(current).outgoing_edges)) =>
          LET out == NodeAtNext(current).outgoing_edges
          IN  /\ \A q \in 1..Len(out) : EdgeYieldsIn(edges', out[q], SelOk(FALSE))
              /\ sel_pc' = "done"
              /\ sel_result' = SelOk(selected_command_ids)
              /\ Len(selected_command_ids) = Len(visited)
              /\ selected_command_ids # <<>>
              /\ SelOk(selected_command_ids[Len(selected_command_ids)])
                     = select_content_command_id(NodeAtNext(current), payload) ]_vars

\* the walk ended with Ok at its second node, which has no outgoing edges
C15_Witness ==
    /\ sel_pc = "done"
    /\ sel_result.kind = "Ok"
    /\ Len(visited) = 2
    /\ NodeAt(LastVisited).outgoing_edges = <<>>
    /\ ~NodeAt(LastVisited).more

\* C16: when handle is entered for a Dictionary node, then if the payload
\* has no value of the node's key_name the node gives MissingDictionaryKey
\* of that name, which ends the walk as a SelectionNodeError with nothing
\* appended; if the value is a key of the node's map the mapped command is
\* appended, and if it is not, default_command is appended.
C16_DictionaryNode ==
    [][ (sel_pc = "handle" /\ NodeAt(current).kind = "Dictionary") =>
          LET node == NodeAt(current)
              value == payload[node.key_name]
          IN  /\ value = Absent =>
                     /\ sel_pc' = "done"
                     /\ sel_result' = SelErr(SelectionNodeError(
                                          MissingDictionaryKey(node.key_name)))
                     /\ selected_command_ids' = selected_command_ids
              /\ (value # Absent /\ value \in DOMAIN node.mapping) =>
                     /\ selected_command_ids' =
                            Append(selected_command_ids, node.mapping[value])
                     /\ sel_pc' = "edges"
              /\ (value # Absent /\ value \notin DOMAIN node.mapping) =>
                     /\ selected_command_ids' =
                            Append(selected_command_ids, node.default_command)
                     /\ sel_pc' = "edges" ]_vars

\* the second node of the walk is a Dictionary node, the payload's value of
\* its key is not in its map, and its default_command was appended
C16_Witness ==
    /\ Len(visited) = 2
    /\ Len(selected_command_ids) = 2
    /\ NodeAt(visited[2]).kind = "Dictionary"
    /\ payload[NodeAt(visited[2]).key_name] \notin
           DOMAIN NodeAt(visited[2]).mapping \cup {Absent}
    /\ selected_command_ids[2] = NodeAt(visited[2]).default_command

(***************************************************************************)
(* Properties of the builder and of the tick engine.                       *)
(***************************************************************************)
\* every ExecuteSubTree of the root definition has a subtree definition
AllSubTreesKnown ==
    \A i \in 1..Len(root_def.children) :
        root_def.children[i].kind = "ExecuteSubTree" =>
            SubTreesOf(subtree_defs, root_def.children[i].subtree_id) # {}

ChildIds(def) == [i \in 1..Len(def.children) |-> def.children[i].id]

\* the ids of the nodes of all the definitions
DefinitionIds ==
    <<root_def.id>> \o ChildIds(root_def)
    \o (IF subtree_defs = <<>> THEN <<>>
        ELSE <<subtree_defs[1].id>> \o ChildIds(subtree_defs[1]))

NodeIdsUnique == Cardinality(Range(DefinitionIds)) = Len(DefinitionIds)

\* C17: a build succeeds exactly when every ExecuteSubTree of the
\* definitions has a subtree definition and no node id occurs twice, and a
\* build that fails gives one of UnknownSubTree, DuplicateNodeId and
\* EmptyComposite.
C17_BuildSucceedsIff ==
    build_result # NoResult =>
        /\ build_result.kind = "Ok" <=> (AllSubTreesKnown /\ NodeIdsUnique)
        /\ build_result.kind = "Err" =>
               build_result.error.error \in
                   {"UnknownSubTree", "DuplicateNodeId", "EmptyComposite"}

\* C18: a tick of the Sequence ticks its children one after the other in
\* declaration order, starting at its cursor; every child ticked before the
\* last one returned Success; if the last one ticked did not return
\* Success the tick returns what it returned and no later child is ticked;
\* the tick returns Success exactly when it ticked up to the last child
\* and every child it ticked returned Success.
C18_SequenceTick ==
    last_tick # NoTick =>
        LET n == Len(last_tick.ticked)
        IN  /\ n >= 1
            /\ \A k \in 1..n : last_tick.ticked[k] = last_tick.from + k
            /\ last_tick.ticked[n] <= Len(seq_children)
            /\ \A k \in 1..(n - 1) : last_tick.returned[k] = TickOk(Success)
            /\ last_tick.result = last_tick.returned[n]
            /\ last_tick.returned[n] = TickOk(Success) =>
                   last_tick.ticked[n] = Len(seq_children)

\* a tick of a Sequence of two children that started at the first child
\* returned Failure from it and did not tick the second
C18_Witness ==
    /\ Len(seq_children) = 2
    /\ last_tick.from = 0
    /\ last_tick.ticked = <<1>>
    /\ last_tick.result = TickOk(Failure)

\* C20: the tick of a PrintLog action node returns what the wrapped
\* PrintLog node returns: Success when the sink took the line, the error Io
\* when the write failed, and never Failure or Running.
C20_PrintLogTick ==
    \A k \in 1..Len(last_tick.ticked) :
        seq_children[last_tick.ticked[k]].kind = "PrintLog" =>
            /\ last_tick.returned[k] =
                   (IF last_tick.inputs[k].sink_ok THEN TickOk(Success)
                    ELSE TickErr(Io))
            /\ last_tick.returned[k] \notin {TickOk(Failure), TickOk(Running)}

\* a tick ticked two PrintLog actions: the first wrote its line and returned
\* Success, the write of the second failed and it returned the error Io
C20_Witness ==
    /\ Len(last_tick.ticked) = 2
    /\ seq_children[1].kind = "PrintLog"
    /\ seq_children[2].kind = "PrintLog"
    /\ last_tick.returned = <<TickOk(Success), TickErr(Io)>>
    /\ log # <<>>

\* C19: an abort(id) that found the entry and took its lock signals the
\* handles registered under id in the order in which their register calls
\* returned: the handles it signalled are, in the order of the signals, the
\* first handles registered, and all of them when it returned Ok.
C19_AbortIsFifo ==
    (last.op = "abort" /\ last.result \in {Ok, Panicked}) =>
        /\ Len(last.signalled) <= Len(registered[last.id])
        /\ last.signalled =
               SubSeq(registered[last.id], 1, Len(last.signalled))
        /\ last.result = Ok => last.signalled = registered[last.id]

\* abort(id) returned Ok after signalling two handles registered under id
C19_Witness ==
    /\ Returned(last, "abort", Ok)
    /\ Len(last.signalled) = 2
    /\ last.signalled[1] # last.signalled[2]

\* C21: every ReactiveService operation touches only the entries of the ids
\* it names: register(id, h), abort(id), initialize_nodes(ids) and
\* cleanup_nodes(ids) leave the presence and the handle list of every other
\* node id unchanged, and a register or abort that returns an error leaves
\* the whole map unchanged.
NamedIds(c) == IF c.op \in {"register", "abort"} THEN {c.id} ELSE c.ids
ErrorResults(id) == {AbortEntryNotFound(id), AbortEntryLockError(id)}
C21_OnlyNamedIdsTouched ==
    [][ /\ \A i \in NodeIds \ NamedIds(last') :
              /\ (i \in DOMAIN abort_handles') <=> (i \in DOMAIN abort_handles)
              /\ i \in DOMAIN abort_handles =>
                    abort_handles'[i].handles = abort_handles[i].handles
        /\ (/\ IsCall(last', {"register", "abort"})
            /\ last'.result \in ErrorResults(last'.id)) =>
                    abort_handles' = abort_handles
      ]_vars

\* cleanup_nodes named one id and removed its entry while another id's entry
\* holds a handle
C21_Witness ==
    /\ IsCall(last, {"cleanup_nodes"})
    /\ \E i \in last.ids :
          /\ i \notin DOMAIN abort_handles
          /\ \E h \in Handles : regs[h] = [id |-> i, state |-> "dropped"]
          /\ \E j \in DOMAIN abort_handles \ last.ids :
                abort_handles[j].handles # <<>>

\* C22: a register(id, h) that runs concurrently with cleanup_nodes([id]) or
\* abort(id) is atomic with respect to them: it either returns
\* AbortEntryNotFound without storing h, or stores h in the entry that is in
\* the map at that moment.  A handle is never appended to an entry already
\* removed from the map (the entry a register holds a Ref to stays in the
\* map and is not replaced), and a handle stored while an abort is in
\* progress is either signalled by that abort or remains in the list for the
\* next abort (no handle is stored while an abort iterates, an abort that
\* returns Ok has signalled every handle of the list, and the list of an
\* entry only grows as long as the entry is not removed or replaced).
RefPcs == {"reg_lock", "reg_read", "reg_write", "reg_unlock", "reg_drop"}
Moves(t, from, to) == threads[t].pc = from /\ threads'[t].pc = to
IsPrefix(s, u) == Len(s) <= Len(u) /\ SubSeq(u, 1, Len(s)) = s
StoredNowhere(map, h) == \A i \in DOMAIN map : Count(h, map[i].handles) = 0
Iterating(id) ==
    \E u \in Threads : threads[u].op = "abort" /\ threads[u].id = id /\ At(u, "abt_iter")
Inserts(i) ==
    \E u \in Threads :
        /\ threads[u].op = "initialize_nodes" /\ Moves(u, "ini_loop", "ini_loop")
        /\ threads[u].ids # <<>> /\ Head(threads[u].ids) = i
        /\ threads'[u].ids = Tail(threads[u].ids)
C22_RegisterAtomic ==
    [][ /\ \A t \in Threads :
              (threads'[t].op = "register" /\ threads'[t].pc \in RefPcs) =>
                  /\ threads'[t].id \in DOMAIN abort_handles'
                  /\ ~Inserts(threads'[t].id)
        /\ \A t \in Threads :
              (Moves(t, "reg_get", "returned")) =>
                  /\ threads'[t].ret = AbortEntryNotFound(threads[t].id)
                  /\ threads[t].id \notin DOMAIN abort_handles
                  /\ abort_handles' = abort_handles
                  /\ StoredNowhere(abort_handles', threads[t].handle)
        /\ \A t \in Threads :
              (Moves(t, "reg_write", "reg_unlock")) =>
                  /\ threads[t].id \in DOMAIN abort_handles
                  /\ abort_handles' =
                        [abort_handles EXCEPT ![threads[t].id].handles =
                            Append(@, threads[t].handle)]
                  /\ ~Iterating(threads[t].id)
        /\ \A t \in Threads :
              (/\ threads[t].op = "abort" /\ Moves(t, "abt_iter", "abt_drop")
               /\ threads'[t].ret = Ok) =>
                  \A h \in Range(abort_handles'[threads[t].id].handles) :
                        aborted'[h]
        /\ \A i \in DOMAIN abort_handles \cap DOMAIN abort_handles' :
              \/ IsPrefix(abort_handles[i].handles, abort_handles'[i].handles)
              \/ Inserts(i)
      ]_vars

\* a register has stored its handle in the entry of an id, and still holds
\* the Ref, while a cleanup_nodes that names this id waits to remove it
C22_Witness ==
    \E t, u \in Threads :
        /\ threads[t].op = "register" /\ At(t, "reg_unlock")
        /\ threads[u].op = "cleanup_nodes" /\ At(u, "cln_loop")
        /\ threads[u].ids # <<>> /\ Head(threads[u].ids) = threads[t].id
        /\ threads[t].id \in DOMAIN abort_handles
        /\ Count(threads[t].handle, abort_handles[threads[t].id].handles) = 1

\* C23: on an acyclic selection graph (handle is never called with a node
\* it was called with before) select_commands always terminates: the walk
\* makes at most |nodes| + 1 handle calls and in the end returns.  A
\* successful result is never empty, its first element is the command
\* selected by start_node, it holds exactly one command per visited node,
\* and its length is at most |nodes| + 1.
NodeCount == Cardinality(DOMAIN nodes)
C23_AcyclicWalkTerminates ==
    /\ [](~Revisited => Len(visited) <= NodeCount + 1)
    /\ []((sel_pc = "done" /\ sel_result.kind = "Ok") =>
            /\ sel_result.value # <<>>
            /\ select_content_command_id(start_node, payload) =
                  SelOk(Head(sel_result.value))
            /\ Len(sel_result.value) = Len(visited)
            /\ ~Revisited
            /\ Len(sel_result.value) <= NodeCount + 1)
    /\ <>(Revisited \/ sel_pc = "done")

\* select_commands returned the commands of a path through the start node
\* and every node of the vector, each visited once
C23_Witness ==
    /\ sel_pc = "done"
    /\ sel_result.kind = "Ok"
    /\ ~Revisited
    /\ Len(sel_result.value) = NodeCount + 1
    /\ Range(visited) = {StartRef} \cup DOMAIN nodes

====
